---- MODULE Spec2Model ----
(***************************************************************************)
(* Model of zscan_rr.go: the rdata grammars of a DNS zone-file parser.     *)
(* setRR reads lexical tokens from the channel c, one receive at a time,   *)
(* and builds the record of the header's type, or returns a ParseError.    *)
(* Token texts are sequences of one-character strings, so that the         *)
(* conversions applied to them (Atoi, ParseIP, ToUpper, len) are computed. *)
(***************************************************************************)
EXTENDS Integers, Sequences, FiniteSets, TLC

nil == <<>>

(* ---------------------------------------------------------------------- *)
(* Token kinds (Lex.value) and record type codes (h.Rrtype).               *)
(* ---------------------------------------------------------------------- *)
_EOF == 0
_STRING == 1
_BLANK == 2
_NEWLINE == 3
_RRTYPE == 4

TypeA == 1
TypeNS == 2
TypeCNAME == 5
TypeSOA == 6
TypeMX == 15
TypeTXT == 16
TypeAAAA == 28
TypeRRSIG == 46
TypeNSEC == 47
TypeNSEC3 == 50

\* The zero value Lex{}.
LexZero == [value |-> 0, token |-> <<>>]

ParseError(err, lex) == [err |-> err, lex |-> lex]

(* ---------------------------------------------------------------------- *)
(* Characters and the conversions of token text.                           *)
(* ---------------------------------------------------------------------- *)
Lower == <<"a","b","c","d","e","f","g","h","i","j","k","l","m",
           "n","o","p","q","r","s","t","u","v","w","x","y","z">>
Upper == <<"A","B","C","D","E","F","G","H","I","J","K","L","M",
           "N","O","P","Q","R","S","T","U","V","W","X","Y","Z">>
DigitChars == <<"0","1","2","3","4","5","6","7","8","9">>

IsDigit(ch) == \E k \in 1..10 : DigitChars[k] = ch
DigitVal(ch) == (CHOOSE k \in 1..10 : DigitChars[k] = ch) - 1
IsLetter(ch) == \E k \in 1..26 : Lower[k] = ch \/ Upper[k] = ch
IsHexDigit(ch) == IsDigit(ch) \/ \E k \in 1..6 : Lower[k] = ch \/ Upper[k] = ch
HexVal(ch) == IF IsDigit(ch) THEN DigitVal(ch)
              ELSE 9 + (CHOOSE k \in 1..6 : Lower[k] = ch \/ Upper[k] = ch)

\* strings.ToUpper
ToUpperCh(ch) == IF \E k \in 1..26 : Lower[k] = ch
                 THEN Upper[CHOOSE k \in 1..26 : Lower[k] = ch]
                 ELSE ch
ToUpper(s) == [k \in 1..Len(s) |-> ToUpperCh(s[k])]

RECURSIVE DecValue(_, _)
DecValue(s, acc) == IF s = <<>> THEN acc
                    ELSE DecValue(Tail(s), 10 * acc + DigitVal(Head(s)))

AllDigits(s) == \A k \in 1..Len(s) : IsDigit(s[k])

\* TLC's integers are 32 bits wide, Go's int is 32 or 64 bits wide:
\* an int v is kept as <<hi, lo>> with v = hi * 65536 + lo, 0 <= lo < 65536.
\* (The accumulator of each step is bound as a value, a \in {...}, so that it
\* is computed once.)
RECURSIVE DecWide(_, _)
DecWide(s, acc) ==
    IF s = <<>> THEN acc
    ELSE LET x == 10 * acc[2] + DigitVal(Head(s))
         IN  CHOOSE v \in {DecWide(Tail(s), a) :
                              a \in {<<10 * acc[1] + x \div 65536, x % 65536>>}} : TRUE
Negate(v) == IF v[2] = 0 THEN <<0 - v[1], 0>> ELSE <<0 - v[1] - 1, 65536 - v[2]>>

\* strconv.Atoi: an optional sign, then one or more decimal digits, the value
\* within the range of an int of size bits.  The result is <<i, ok>>.  (The
\* texts of the model have at most 14 digits, all within a 64-bit int.)
Atoi(s, size) ==
    LET signed == s # <<>> /\ Head(s) \in {"+", "-"}
        digs   == IF signed THEN Tail(s) ELSE s
        mag    == DecWide(digs, <<0, 0>>)
        v      == IF signed /\ Head(s) = "-" THEN Negate(mag) ELSE mag
    IN  IF digs = <<>> \/ ~AllDigits(digs) THEN <<<<0, 0>>, FALSE>>
        ELSE IF size = 32 /\ (v[1] < 0 - 32768 \/ v[1] > 32767) THEN <<<<0, 0>>, FALSE>>
        ELSE <<v, TRUE>>

\* The conversions uint8(i), uint16(i), uint32(i) of an int: the low 8, 16
\* and 32 bits.  A uint32 is kept as its two 16-bit halves <<high, low>>.
uint8(j) == j[2] % 256
uint16(j) == j[2]
uint32(j) == <<j[1] % 65536, j[2]>>

\* s split at every occurrence of the character sep.
RECURSIVE SplitAt(_, _, _, _)
SplitAt(s, sep, cur, acc) ==
    IF s = <<>> THEN Append(acc, cur)
    ELSE IF Head(s) = sep THEN SplitAt(Tail(s), sep, <<>>, Append(acc, cur))
    ELSE SplitAt(Tail(s), sep, Append(cur, Head(s)), acc)
Split(s, sep) == SplitAt(s, sep, <<>>, <<>>)

RECURSIVE HexValue(_, _)
HexValue(s, acc) == IF s = <<>> THEN acc
                    ELSE HexValue(Tail(s), 16 * acc + HexVal(Head(s)))

\* net.ParseIP, dotted-quad form: four decimal fields of value at most 255.
parseIPv4(s) ==
    LET p == Split(s, ".")
    IN  IF /\ Len(p) = 4
           /\ \A k \in 1..4 : /\ p[k] # <<>>
                              /\ Len(p[k]) <= 3
                              /\ AllDigits(p[k])
                              /\ DecValue(p[k], 0) <= 255
        THEN <<[k \in 1..4 |-> DecValue(p[k], 0)]>>
        ELSE nil

\* A colon-separated list of groups of one to four hex digits (the empty
\* text is the empty list); nil when it is not such a list.
hexGroups(s) ==
    LET p == Split(s, ":")
    IN  IF s = <<>> THEN <<<<>>>>
        ELSE IF \A k \in 1..Len(p) :
                   /\ p[k] # <<>>
                   /\ Len(p[k]) <= 4
                   /\ \A j \in 1..Len(p[k]) : IsHexDigit(p[k][j])
        THEN <<[k \in 1..Len(p) |-> HexValue(p[k], 0)]>>
        ELSE nil

\* net.ParseIP, colon form: eight groups, at most one "::" standing for the
\* missing zero groups.  (An embedded dotted quad in the last group is not
\* modelled.)
parseIPv6(s) ==
    LET ell == {k \in 1..(Len(s) - 1) : s[k] = ":" /\ s[k + 1] = ":"}
    IN  IF Cardinality(ell) > 1 THEN nil
        ELSE IF ell = {} THEN
            (IF hexGroups(s) # nil /\ Len(hexGroups(s)[1]) = 8 THEN hexGroups(s) ELSE nil)
        ELSE LET k == CHOOSE x \in ell : TRUE
                 a == hexGroups(SubSeq(s, 1, k - 1))
                 b == hexGroups(SubSeq(s, k + 2, Len(s)))
             IN  IF a = nil \/ b = nil THEN nil
                 ELSE IF Len(a[1]) + Len(b[1]) > 7 THEN nil
                 ELSE <<a[1] \o [j \in 1..(8 - Len(a[1]) - Len(b[1])) |-> 0] \o b[1]>>

ParseIP(s) == IF parseIPv4(s) # nil THEN parseIPv4(s) ELSE parseIPv6(s)

\* IsDomainName: a non-empty name of at most 255 characters made of
\* non-empty labels of letters, digits, "-" and "_", separated by dots, with
\* an optional trailing dot; no label begins or ends with "-", and the name
\* has at least one letter or "_".
IsDomainName(s) ==
    LET t == IF s # <<>> /\ s[Len(s)] = "." THEN SubSeq(s, 1, Len(s) - 1) ELSE s
        p == Split(t, ".")
    IN  /\ s # <<>>
        /\ Len(s) <= 255
        /\ \E k \in 1..Len(s) : IsLetter(s[k]) \/ s[k] = "_"
        /\ \A k \in 1..Len(p) :
              /\ p[k] # <<>>
              /\ Len(p[k]) <= 63
              /\ p[k][1] # "-"
              /\ p[k][Len(p[k])] # "-"
              /\ \A j \in 1..Len(p[k]) :
                    IsLetter(p[k][j]) \/ IsDigit(p[k][j]) \/ p[k][j] \in {"-", "_"}

\* Str_rr: the table of type mnemonics.
Str_rr == {
    <<<<"A">>, TypeA>>,
    <<<<"N","S">>, TypeNS>>,
    <<<<"C","N","A","M","E">>, TypeCNAME>>,
    <<<<"S","O","A">>, TypeSOA>>,
    <<<<"M","X">>, TypeMX>>,
    <<<<"T","X","T">>, TypeTXT>>,
    <<<<"A","A","A","A">>, TypeAAAA>>,
    <<<<"R","R","S","I","G">>, TypeRRSIG>>,
    <<<<"N","S","E","C">>, TypeNSEC>>,
    <<<<"N","S","E","C","3">>, TypeNSEC3>> }
\* t, ok := Str_rr[key]
Str_rrOk(key) == \E e \in Str_rr : e[1] = key
Str_rrGet(key) == (CHOOSE e \in Str_rr : e[1] = key)[2]

\* dateToTime: the text is YYYYMMDDHHmmSS; the instant is kept as the six
\* decoded calendar fields.  The result is <<t, ok>>.
dateToTime(s) ==
    IF Len(s) # 14 \/ ~AllDigits(s) THEN <<nil, FALSE>>
    ELSE LET f(a, b) == DecValue(SubSeq(s, a, b), 0)
             t == <<f(1, 4), f(5, 6), f(7, 8), f(9, 10), f(11, 12), f(13, 14)>>
         IN  IF t[2] \in 1..12 /\ t[3] \in 1..31 /\ t[4] <= 23 /\ t[5] <= 59 /\ t[6] <= 59
             THEN <<t, TRUE>>
             ELSE <<nil, FALSE>>

(* ---------------------------------------------------------------------- *)
(* The inputs: a header and the token sequence the producer hands over.    *)
(* ---------------------------------------------------------------------- *)
MaxTail == 3
MaxFollow == 1

IntSizes == {32, 64}

Str(t) == [value |-> _STRING, token |-> t]
BLANK == [value |-> _BLANK, token |-> <<" ">>]
NEWLINE == [value |-> _NEWLINE, token |-> <<"\n">>]
EOF == [value |-> _EOF, token |-> <<>>]

t_ip4 == <<"1",".","2",".","3",".","4">>
t_ip6 == <<":",":","1">>
t_name == <<"n","s",".">>
t_badname == <<"a",".",".","b">>
t_7 == <<"7">>
t_300 == <<"3","0","0">>
t_70000 == <<"7","0","0","0","0">>
t_big == <<"4","2","9","4","9","6","7","2","9","7">>
t_neg == <<"-","1">>
t_A == <<"A">>
t_mx == <<"m","x">>
t_date == <<"2","0","1","1","0","1","0","2","0","3","0","4","0","5">>
t_1 == <<"1">>
t_42 == <<"4","2">>
\* A text of 256 characters: the shortest whose length is no uint8.
t_long == [k \in 1..256 |-> "a"]

FixedTypes == {TypeA, TypeAAAA, TypeNS, TypeMX, TypeCNAME, TypeSOA}
VarTypes == {TypeRRSIG, TypeNSEC, TypeNSEC3, TypeTXT}
\* Type codes that setRR has no grammar for.
UnknownTypes == {43, 65535}
Types == FixedTypes \cup VarTypes \cup UnknownTypes

Header(t) == [Name |-> t_name, Rrtype |-> t, Class |-> 1, Ttl |-> 3600]

\* A well-formed sequence of leading fields for each type.
Lead(t) ==
    CASE t = TypeA     -> <<Str(t_ip4)>>
      [] t = TypeAAAA  -> <<Str(t_ip6)>>
      [] t = TypeNS    -> <<Str(t_name)>>
      [] t = TypeCNAME -> <<Str(t_name)>>
      [] t = TypeMX    -> <<Str(t_7), BLANK, Str(t_name)>>
      [] t = TypeSOA   -> <<Str(t_name), BLANK, Str(t_name), BLANK, Str(t_7), BLANK,
                            Str(t_7), BLANK, Str(t_7), BLANK, Str(t_7), BLANK, Str(t_7)>>
      [] t = TypeRRSIG -> <<Str(t_A), BLANK, Str(t_7), BLANK, Str(t_7), BLANK, Str(t_7),
                            BLANK, Str(t_date), BLANK, Str(t_date), BLANK, Str(t_7),
                            BLANK, Str(t_name)>>
      [] t = TypeNSEC  -> <<Str(t_name)>>
      [] t = TypeNSEC3 -> <<Str(t_7), BLANK, Str(t_7), BLANK, Str(t_7), BLANK,
                            Str(t_mx), BLANK, Str(t_name)>>
      [] t = TypeTXT   -> <<>>
      [] OTHER         -> <<Str(t_7), BLANK, Str(t_name)>>

SeqsUpTo(S, n) == UNION {[1..k -> S] : k \in 0..n}

RRTYPE == [value |-> _RRTYPE, token |-> <<"M","X">>]

\* The tokens put in place of one token of a well-formed sequence.
FaultAlphabet == {Str(t_ip4), Str(t_ip6), Str(t_badname), Str(t_300), Str(t_70000),
                  Str(t_big), Str(t_neg), BLANK, NEWLINE, EOF, RRTYPE}
Faulted(body) == {body} \cup
    {[body EXCEPT ![p] = a] : p \in 1..Len(body), a \in FaultAlphabet}

\* The tails of the types of variable length: up to MaxTail words and
\* blanks, or fewer of them and then a token the scan loop refuses.
TailAlphabet == {BLANK, Str(t_mx), Str(t_A)}
TailFaults == {Str(t_badname), RRTYPE}
DefaultTail == <<BLANK, Str(t_mx)>>
Tails == SeqsUpTo(TailAlphabet, MaxTail) \cup
         {tl \o <<a>> : tl \in SeqsUpTo(TailAlphabet, MaxTail - 1), a \in TailFaults}

\* Further well-formed leading fields: an SOA whose seven fields all differ,
\* an NSEC3 whose salt or next domain is a long text.
Special(t) ==
    CASE t = TypeSOA   -> {<<Str(t_name), BLANK, Str(t_mx), BLANK, Str(t_7), BLANK,
                             Str(t_300), BLANK, Str(t_70000), BLANK, Str(t_1), BLANK,
                             Str(t_42)>>}
      [] t = TypeNSEC3 -> {[Lead(t) EXCEPT ![7] = Str(t_long)],
                           [Lead(t) EXCEPT ![9] = Str(t_long)]}
      [] OTHER         -> {}

\* The fields of a record of type t: the well-formed ones, or with one token
\* replaced; for the types of variable length, followed by a tail.
Bodies(t) == IF t \in VarTypes
             THEN {b \o DefaultTail : b \in Faulted(Lead(t)) \cup Special(t)} \cup
                  {Lead(t) \o tl : tl \in Tails}
             ELSE Faulted(Lead(t)) \cup Special(t)

\* What follows the fields: the end of the record (<<>> is the end of the
\* stream), and then the first tokens of what comes after it.
Endings(t) == IF t \in VarTypes
              THEN {<<NEWLINE>>, <<EOF>>, <<>>}
              ELSE {<<NEWLINE>>, <<BLANK, NEWLINE>>, <<BLANK, Str(t_name)>>, <<Str(t_name)>>,
                    <<EOF>>, <<>>}
FollowAlphabet == {Str(t_name), NEWLINE}
\* The stream ends where the producer reaches the end of its input: it
\* hands over nothing after that, every further receive delivers EOF.
CutAtEOF(sq) ==
    LET ends == {k \in 1..Len(sq) : sq[k].value = _EOF}
    IN  IF ends = {} THEN sq
        ELSE SubSeq(sq, 1, (CHOOSE k \in ends : \A j \in ends : k <= j) - 1)
Streams(t) == {CutAtEOF(b \o en \o f) : b \in Bodies(t),
                                        en \in Endings(t),
                                        f \in SeqsUpTo(FollowAlphabet, MaxFollow)}

(* ---------------------------------------------------------------------- *)
(* The state.                                                              *)
(* ---------------------------------------------------------------------- *)
VARIABLES
    h,         \* the header passed to setRR
    intSize,   \* the width of int in the build
    stream,    \* the tokens the producer hands over through c, in order
    pos,       \* the number of receives from c done so far
    pc,        \* the function the consumer is in
    ip,        \* its position in that function
    l,         \* the local l: the token last assigned
    rr,        \* the record under construction in the grammar
    i,         \* the loop counter of setSOA
    s,         \* the text accumulated by setRRSIG and setTXT
    r, e,      \* setRR's locals: what the grammar returned
    se,        \* setRR's local: what slurpRemainder returned
    out        \* what setRR returned (when pc = "done")

vars == <<h, intSize, stream, pos, pc, ip, l, rr, i, s, r, e, se, out>>

Init ==
    /\ h \in {Header(t) : t \in Types}
    /\ intSize \in IntSizes
    /\ stream \in Streams(h.Rrtype)
    /\ pos = 0
    /\ pc = "setRR"
    /\ ip = 0
    /\ l = LexZero
    /\ rr = nil
    /\ i = 0
    /\ s = <<>>
    /\ r = nil
    /\ e = nil
    /\ se = nil
    /\ out = [r |-> nil, e |-> nil]

\* The k-th token a receive from c delivers: the k-th token of the stream,
\* and EOF for ever once the stream is exhausted.
At(k) == IF k <= Len(stream) THEN stream[k] ELSE EOF
\* The tokens received so far, and those still to be handed over.
consumed == [k \in 1..pos |-> At(k)]
c == SubSeq(stream, pos + 1, Len(stream))
\* <-c
next == At(pos + 1)
\* Variant of Receive with a producer that delivers nothing once its tokens
\* are handed over: the receive blocks.
Receive_Blocking ==
    /\ pos < Len(stream)
    /\ pos' = pos + 1
    /\ UNCHANGED stream
Receive ==
    /\ pos' = pos + 1
    /\ UNCHANGED stream

\* return rv, ev from a grammar, back into setRR at position at.
Return(rv, ev, at) ==
    /\ r' = rv
    /\ e' = ev
    /\ pc' = "setRR"
    /\ ip' = at
    /\ UNCHANGED se

\* return rv, ev from setRR.
Done(rv, ev) ==
    /\ out' = [r |-> rv, e |-> ev]
    /\ pc' = "done"
    /\ ip' = 0

(* ---------------------------------------------------------------------- *)
(* slurpRemainder                                                          *)
(* ---------------------------------------------------------------------- *)
\* Variant of slurpEnd that forgets the end of the stream.
slurpEnd_NoEOF(lx) == lx.value = _NEWLINE
slurpEnd(lx) == lx.value = _NEWLINE \/ lx.value = _EOF

\* return ev from slurpRemainder, back into setRR.
slurpReturn(ev) ==
    /\ se' = ev
    /\ pc' = "setRR"
    /\ ip' = 2

slurpRemainder ==
    /\ pc = "slurpRemainder"
    /\ Receive
    /\ l' = next
    /\ UNCHANGED <<h, intSize, rr, i, s, r, e, out>>
    /\ \/ /\ ip = 1
          /\ next.value = _BLANK
          /\ pc' = pc /\ ip' = 2
          /\ UNCHANGED se
       \/ /\ ip = 1
          /\ next.value # _BLANK
          /\ IF slurpEnd(next)
             THEN slurpReturn(nil)
             ELSE slurpReturn(<<ParseError("garbage after rdata", next)>>)
       \/ /\ ip = 2
          /\ IF slurpEnd(next)
             THEN slurpReturn(nil)
             ELSE slurpReturn(<<ParseError("garbage after rdata", next)>>)

(* ---------------------------------------------------------------------- *)
(* The one-field grammars.                                                 *)
(* ---------------------------------------------------------------------- *)
setA ==
    /\ pc = "setA"
    /\ Receive
    /\ l' = next
    /\ rr' = [Hdr |-> h, A |-> ParseIP(next.token)]
    /\ IF rr'.A = nil
       THEN Return(nil, <<ParseError("bad a", next)>>, 1)
       ELSE Return(<<rr'>>, nil, 1)
    /\ UNCHANGED <<h, intSize, i, s, out>>

setAAAA ==
    /\ pc = "setAAAA"
    /\ Receive
    /\ l' = next
    /\ rr' = [Hdr |-> h, AAAA |-> ParseIP(next.token)]
    /\ IF rr'.AAAA = nil
       THEN Return(nil, <<ParseError("bad AAAA", next)>>, 1)
       ELSE Return(<<rr'>>, nil, 1)
    /\ UNCHANGED <<h, intSize, i, s, out>>

setNS ==
    /\ pc = "setNS"
    /\ Receive
    /\ l' = next
    /\ rr' = [Hdr |-> h, Ns |-> next.token]
    /\ IF ~IsDomainName(next.token)
       THEN Return(nil, <<ParseError("bad NS", next)>>, 1)
       ELSE Return(<<rr'>>, nil, 1)
    /\ UNCHANGED <<h, intSize, i, s, out>>

setCNAME ==
    /\ pc = "setCNAME"
    /\ Receive
    /\ l' = next
    /\ rr' = [Hdr |-> h, Cname |-> next.token]
    /\ IF ~IsDomainName(next.token)
       THEN Return(nil, <<ParseError("bad CNAME", next)>>, 1)
       ELSE Return(<<rr'>>, nil, 1)
    /\ UNCHANGED <<h, intSize, i, s, out>>

(* ---------------------------------------------------------------------- *)
(* setMX                                                                   *)
(* ---------------------------------------------------------------------- *)
setMX ==
    /\ pc = "setMX"
    /\ Receive
    /\ UNCHANGED <<h, intSize, i, s, out>>
    /\ \/ /\ ip = 1                                  \* l := <-c
          /\ l' = next
          /\ LET a == Atoi(next.token, intSize)
             IN  IF ~a[2]
                 THEN /\ Return(nil, <<ParseError("bad MX", next)>>, 1)
                      /\ rr' = [Hdr |-> h, Pref |-> 0, Mx |-> <<>>]
                 ELSE /\ rr' = [Hdr |-> h, Pref |-> uint16(a[1]), Mx |-> <<>>]
                      /\ pc' = pc /\ ip' = 2
                      /\ UNCHANGED <<r, e, se>>
       \/ /\ ip = 2                                  \* <-c
          /\ pc' = pc /\ ip' = 3
          /\ UNCHANGED <<l, rr, r, e, se>>
       \/ /\ ip = 3                                  \* l = <-c
          /\ l' = next
          /\ rr' = [rr EXCEPT !.Mx = next.token]
          /\ IF ~IsDomainName(next.token)
             THEN Return(nil, <<ParseError("bad CNAME", next)>>, 1)
             ELSE Return(<<rr'>>, nil, 1)

(* ---------------------------------------------------------------------- *)
(* setSOA                                                                  *)
(* ---------------------------------------------------------------------- *)
newRR_SOA == [Hdr |-> h, Ns |-> <<>>, Mbox |-> <<>>, Serial |-> <<0, 0>>,
              Refresh |-> <<0, 0>>, Retry |-> <<0, 0>>, Expire |-> <<0, 0>>,
              Minttl |-> <<0, 0>>]

\* switch i { case 0: rr.Serial = uint32(j) ... case 4: rr.Minttl = uint32(j) }
soaAssign(rec, k, j) ==
    CASE k = 0 -> [rec EXCEPT !.Serial = uint32(j)]
      [] k = 1 -> [rec EXCEPT !.Refresh = uint32(j)]
      [] k = 2 -> [rec EXCEPT !.Retry = uint32(j)]
      [] k = 3 -> [rec EXCEPT !.Expire = uint32(j)]
      [] k = 4 -> [rec EXCEPT !.Minttl = uint32(j)]
      [] OTHER -> rec

setSOA ==
    /\ pc = "setSOA"
    /\ Receive
    /\ UNCHANGED <<h, intSize, s, out>>
    /\ \/ /\ ip = 1                                  \* l := <-c
          /\ l' = next
          /\ rr' = [newRR_SOA EXCEPT !.Ns = next.token]
          /\ pc' = pc /\ ip' = 2
          /\ UNCHANGED <<i, r, e, se>>
       \/ /\ ip = 2                                  \* <-c, then the check of l
          /\ UNCHANGED <<l, rr, i>>
          /\ IF ~IsDomainName(l.token)
             THEN Return(nil, <<ParseError("bad SOA mname", l)>>, 1)
             ELSE pc' = pc /\ ip' = 3 /\ UNCHANGED <<r, e, se>>
       \/ /\ ip = 3                                  \* l = <-c
          /\ l' = next
          /\ rr' = [rr EXCEPT !.Mbox = next.token]
          /\ UNCHANGED i
          /\ IF ~IsDomainName(next.token)
             THEN Return(nil, <<ParseError("bad SOA rname", next)>>, 1)
             ELSE pc' = pc /\ ip' = 4 /\ UNCHANGED <<r, e, se>>
       \/ /\ ip = 4                                  \* <-c, then i := 0
          /\ i' = 0
          /\ pc' = pc /\ ip' = 5
          /\ UNCHANGED <<l, rr, r, e, se>>
       \/ /\ ip = 5                                  \* l = <-c in the loop
          /\ l' = next
          /\ UNCHANGED i
          /\ LET a == Atoi(next.token, intSize)
             IN  IF ~a[2]
                 THEN /\ Return(nil, <<ParseError("bad SOA zone parameter", next)>>, 1)
                      /\ UNCHANGED rr
                 ELSE /\ rr' = soaAssign(rr, i, a[1])
                      /\ pc' = pc /\ ip' = 6
                      /\ UNCHANGED <<r, e, se>>
       \/ /\ ip = 6                                  \* <-c in the loop, then i++
          /\ i' = i + 1
          /\ UNCHANGED <<l, rr>>
          /\ IF i' < 5
             THEN pc' = pc /\ ip' = 5 /\ UNCHANGED <<r, e, se>>
             ELSE Return(<<rr>>, nil, 1)

(* ---------------------------------------------------------------------- *)
(* The grammars that look for the end of the record themselves.            *)
(* ---------------------------------------------------------------------- *)
\* Variant of scanning that forgets the end of the stream.
scanning_NoEOF(lx) == lx.value # _NEWLINE
\* for l.value != _NEWLINE && l.value != _EOF
scanning(lx) == lx.value # _NEWLINE /\ lx.value # _EOF

newRR_RRSIG == [Hdr |-> h, TypeCovered |-> 0, Algorithm |-> 0, Labels |-> 0,
                OrigTtl |-> <<0, 0>>, Expiration |-> nil, Inception |-> nil,
                KeyTag |-> 0, SignerName |-> <<>>, Signature |-> <<>>]

\* The k-th leading field of setRRSIG decoded from the text t into rec:
\* <<the record, ok>>.
rrsigField(rec, k, t, size) ==
    LET a == Atoi(t, size)
        d == dateToTime(t)
    IN  CASE k = 1 -> IF Str_rrOk(ToUpper(t))
                      THEN <<[rec EXCEPT !.TypeCovered = Str_rrGet(ToUpper(t))], TRUE>>
                      ELSE <<rec, FALSE>>
          [] k = 2 -> IF a[2] THEN <<[rec EXCEPT !.Algorithm = uint8(a[1])], TRUE>>
                      ELSE <<rec, FALSE>>
          [] k = 3 -> IF a[2] THEN <<[rec EXCEPT !.Labels = uint8(a[1])], TRUE>>
                      ELSE <<rec, FALSE>>
          [] k = 4 -> IF a[2] THEN <<[rec EXCEPT !.OrigTtl = uint32(a[1])], TRUE>>
                      ELSE <<rec, FALSE>>
          [] k = 5 -> IF d[2] THEN <<[rec EXCEPT !.Expiration = d[1]], TRUE>>
                      ELSE <<rec, FALSE>>
          [] k = 6 -> IF d[2] THEN <<[rec EXCEPT !.Inception = d[1]], TRUE>>
                      ELSE <<rec, FALSE>>
          [] k = 7 -> IF a[2] THEN <<[rec EXCEPT !.KeyTag = uint16(a[1])], TRUE>>
                      ELSE <<rec, FALSE>>
          [] k = 8 -> IF IsDomainName(t) THEN <<[rec EXCEPT !.SignerName = t], TRUE>>
                      ELSE <<rec, FALSE>>

setRRSIG ==
    /\ pc = "setRRSIG"
    /\ Receive
    /\ UNCHANGED <<h, intSize, i, out>>
    /\ \/ /\ ip \in {1, 3, 5, 7, 9, 11, 13, 15}      \* l = <-c, a leading field
          /\ l' = next
          /\ UNCHANGED s
          /\ LET f == rrsigField(IF ip = 1 THEN newRR_RRSIG ELSE rr,
                                 (ip + 1) \div 2, next.token, intSize)
             IN  /\ rr' = f[1]
                 /\ IF ~f[2]
                    THEN Return(nil, <<ParseError("bad RRSIG", next)>>, 1)
                    ELSE pc' = pc /\ ip' = ip + 1 /\ UNCHANGED <<r, e, se>>
       \/ /\ ip \in {2, 4, 6, 8, 10, 12, 14}         \* <-c
          /\ pc' = pc /\ ip' = ip + 1
          /\ UNCHANGED <<l, rr, s, r, e, se>>
       \/ /\ ip = 16                                 \* l = <-c, the scan loop
          /\ l' = next
          /\ IF ~scanning(next)
             THEN /\ rr' = [rr EXCEPT !.Signature = s]
                  /\ Return(<<rr'>>, nil, 1)
                  /\ UNCHANGED s
             ELSE IF next.value = _STRING
             THEN /\ s' = s \o next.token
                  /\ pc' = pc /\ ip' = ip
                  /\ UNCHANGED <<rr, r, e, se>>
             ELSE IF next.value = _BLANK
             THEN /\ pc' = pc /\ ip' = ip
                  /\ UNCHANGED <<rr, s, r, e, se>>
             ELSE /\ Return(nil, <<ParseError("bad RRSIG", next)>>, 1)
                  /\ UNCHANGED <<rr, s>>

\* Variant of bitmapStep that keeps a type code once only.
bitmapStep_NoDup(rec, lx, badRR, garbage) ==
    IF lx.value = _BLANK THEN <<rec, nil>>
    ELSE IF lx.value = _STRING
    THEN IF ~Str_rrOk(ToUpper(lx.token))
         THEN <<rec, <<ParseError(badRR, lx)>> >>
         ELSE IF \E k \in 1..Len(rec.TypeBitMap) :
                     rec.TypeBitMap[k] = Str_rrGet(ToUpper(lx.token))
         THEN <<rec, nil>>
         ELSE <<[rec EXCEPT !.TypeBitMap = Append(@, Str_rrGet(ToUpper(lx.token)))], nil>>
    ELSE <<rec, <<ParseError(garbage, lx)>> >>

\* Variant of bitmapStep that passes over a STRING that is no mnemonic.
bitmapStep_SkipUnknown(rec, lx, badRR, garbage) ==
    IF lx.value = _BLANK THEN <<rec, nil>>
    ELSE IF lx.value = _STRING
    THEN IF ~Str_rrOk(ToUpper(lx.token))
         THEN <<rec, nil>>
         ELSE <<[rec EXCEPT !.TypeBitMap = Append(@, Str_rrGet(ToUpper(lx.token)))], nil>>
    ELSE <<rec, <<ParseError(garbage, lx)>> >>

\* The body of the type bitmap loop of setNSEC and setNSEC3 for the token
\* lx: <<the record, the error>>.
bitmapStep(rec, lx, badRR, garbage) ==
    IF lx.value = _BLANK THEN <<rec, nil>>
    ELSE IF lx.value = _STRING
    THEN IF ~Str_rrOk(ToUpper(lx.token))
         THEN <<rec, <<ParseError(badRR, lx)>> >>
         ELSE <<[rec EXCEPT !.TypeBitMap = Append(@, Str_rrGet(ToUpper(lx.token)))], nil>>
    ELSE <<rec, <<ParseError(garbage, lx)>> >>

setNSEC ==
    /\ pc = "setNSEC"
    /\ Receive
    /\ l' = next
    /\ UNCHANGED <<h, intSize, i, s, out>>
    /\ \/ /\ ip = 1                                  \* l := <-c
          /\ IF ~IsDomainName(next.token)
             THEN /\ rr' = [Hdr |-> h, NextDomain |-> <<>>, TypeBitMap |-> nil]
                  /\ Return(nil, <<ParseError("bad NSEC nextdomain", next)>>, 1)
             ELSE /\ rr' = [Hdr |-> h, NextDomain |-> next.token, TypeBitMap |-> <<>>]
                  /\ pc' = pc /\ ip' = 2
                  /\ UNCHANGED <<r, e, se>>
       \/ /\ ip = 2                                  \* l = <-c, the scan loop
          /\ IF ~scanning(next)
             THEN /\ Return(<<rr>>, nil, 1)
                  /\ UNCHANGED rr
             ELSE LET b == bitmapStep(rr, next, "bad NSEC non RR in type bitmap",
                                      "bad NSEC garbage in type bitmap")
                  IN  /\ rr' = b[1]
                      /\ IF b[2] # nil
                         THEN Return(nil, b[2], 1)
                         ELSE pc' = pc /\ ip' = ip /\ UNCHANGED <<r, e, se>>

newRR_NSEC3 == [Hdr |-> h, Hash |-> 0, Flags |-> 0, Iterations |-> 0, SaltLength |-> 0,
                Salt |-> <<>>, HashLength |-> 0, NextDomain |-> <<>>, TypeBitMap |-> nil]

\* len(l.token), an int.
len(t) == <<0, Len(t)>>

setNSEC3 ==
    /\ pc = "setNSEC3"
    /\ Receive
    /\ UNCHANGED <<h, intSize, i, s, out>>
    /\ \/ /\ ip \in {1, 3, 5}                        \* l = <-c, a numeric field
          /\ l' = next
          /\ LET a   == Atoi(next.token, intSize)
                 rec == IF ip = 1 THEN newRR_NSEC3 ELSE rr
             IN  IF ~a[2]
                 THEN /\ rr' = rec
                      /\ Return(nil, <<ParseError("bad NSEC3", next)>>, 1)
                 ELSE /\ rr' = CASE ip = 1 -> [rec EXCEPT !.Hash = uint8(a[1])]
                                 [] ip = 3 -> [rec EXCEPT !.Flags = uint8(a[1])]
                                 [] ip = 5 -> [rec EXCEPT !.Iterations = uint16(a[1])]
                      /\ pc' = pc /\ ip' = ip + 1
                      /\ UNCHANGED <<r, e, se>>
       \/ /\ ip \in {2, 4, 6, 8}                     \* <-c
          /\ pc' = pc /\ ip' = ip + 1
          /\ UNCHANGED <<l, rr, r, e, se>>
       \/ /\ ip = 7                                  \* l = <-c, the salt
          /\ l' = next
          /\ rr' = [rr EXCEPT !.SaltLength = uint8(len(next.token)), !.Salt = next.token]
          /\ pc' = pc /\ ip' = ip + 1
          /\ UNCHANGED <<r, e, se>>
       \/ /\ ip = 9                                  \* l = <-c, the next domain
          /\ l' = next
          /\ rr' = [rr EXCEPT !.HashLength = uint8(len(next.token)),
                              !.NextDomain = next.token, !.TypeBitMap = <<>>]
          /\ pc' = pc /\ ip' = ip + 1
          /\ UNCHANGED <<r, e, se>>
       \/ /\ ip = 10                                 \* l = <-c, the scan loop
          /\ l' = next
          /\ IF ~scanning(next)
             THEN /\ Return(<<rr>>, nil, 1)
                  /\ UNCHANGED rr
             ELSE LET b == bitmapStep(rr, next, "bad NSEC3", "bad NSEC3")
                  IN  /\ rr' = b[1]
                      /\ IF b[2] # nil
                         THEN Return(nil, b[2], 1)
                         ELSE pc' = pc /\ ip' = ip /\ UNCHANGED <<r, e, se>>

\* Variant of setTXT that leaves the text of the BLANK tokens out, as setRRSIG
\* does.
setTXT_DropBlank ==
    /\ pc = "setTXT"
    /\ Receive
    /\ l' = next
    /\ UNCHANGED <<h, intSize, i, out>>
    /\ IF ~scanning(next)
       THEN /\ rr' = [Hdr |-> h, Txt |-> s]
            /\ Return(<<rr'>>, nil, 1)
            /\ UNCHANGED s
       ELSE IF next.value = _STRING
       THEN /\ s' = s \o next.token
            /\ pc' = pc /\ ip' = ip
            /\ UNCHANGED <<rr, r, e, se>>
       ELSE IF next.value = _BLANK
       THEN /\ pc' = pc /\ ip' = ip
            /\ UNCHANGED <<rr, s, r, e, se>>
       ELSE /\ Return(nil, <<ParseError("bad TXT", next)>>, 1)
            /\ UNCHANGED <<rr, s>>

setTXT ==
    /\ pc = "setTXT"
    /\ Receive
    /\ l' = next
    /\ UNCHANGED <<h, intSize, i, out>>
    /\ IF ~scanning(next)
       THEN /\ rr' = [Hdr |-> h, Txt |-> s]
            /\ Return(<<rr'>>, nil, 1)
            /\ UNCHANGED s
       ELSE IF next.value = _STRING \/ next.value = _BLANK
       THEN /\ s' = s \o next.token
            /\ pc' = pc /\ ip' = ip
            /\ UNCHANGED <<rr, r, e, se>>
       ELSE /\ Return(nil, <<ParseError("bad TXT", next)>>, 1)
            /\ UNCHANGED <<rr, s>>

(* ---------------------------------------------------------------------- *)
(* setRR                                                                   *)
(* ---------------------------------------------------------------------- *)
\* Variant of grammar whose default case falls into the text grammar.
grammar_DefaultTXT(t) ==
    CASE t = TypeA     -> "setA"
      [] t = TypeAAAA  -> "setAAAA"
      [] t = TypeNS    -> "setNS"
      [] t = TypeMX    -> "setMX"
      [] t = TypeCNAME -> "setCNAME"
      [] t = TypeSOA   -> "setSOA"
      [] t = TypeRRSIG -> "setRRSIG"
      [] t = TypeNSEC  -> "setNSEC"
      [] t = TypeNSEC3 -> "setNSEC3"
      [] OTHER         -> "setTXT"

\* The grammar of each type of the switch; "" for the default case.
grammar(t) ==
    CASE t = TypeA     -> "setA"
      [] t = TypeAAAA  -> "setAAAA"
      [] t = TypeNS    -> "setNS"
      [] t = TypeMX    -> "setMX"
      [] t = TypeCNAME -> "setCNAME"
      [] t = TypeSOA   -> "setSOA"
      [] t = TypeRRSIG -> "setRRSIG"
      [] t = TypeNSEC  -> "setNSEC"
      [] t = TypeNSEC3 -> "setNSEC3"
      [] t = TypeTXT   -> "setTXT"
      [] OTHER         -> ""

\* Variant of slurps where the types of variable length run slurpRemainder
\* as well.
slurps_Every(t) == t \in {TypeA, TypeAAAA, TypeNS, TypeMX, TypeCNAME, TypeSOA,
                          TypeRRSIG, TypeNSEC, TypeNSEC3, TypeTXT}

\* The types of the switch that run slurpRemainder after their grammar.
slurps(t) == t \in {TypeA, TypeAAAA, TypeNS, TypeMX, TypeCNAME, TypeSOA}

\* Variant of slurpResult that keeps the record when slurpRemainder fails.
slurpResult_Keep(rv, ev, sev) == IF sev # nil THEN <<rv, sev>> ELSE <<rv, ev>>

\* if se := slurpRemainder(c); se != nil { return nil, se }, else the
\* return r, e at the end of setRR.
slurpResult(rv, ev, sev) == IF sev # nil THEN <<nil, sev>> ELSE <<rv, ev>>

setRR ==
    /\ pc = "setRR"
    /\ UNCHANGED <<h, intSize, stream, pos, l, rr, i, s>>
    /\ \/ /\ ip = 0                                  \* switch h.Rrtype
          /\ grammar(h.Rrtype) # ""
          /\ pc' = grammar(h.Rrtype) /\ ip' = 1
          /\ UNCHANGED <<r, e, se, out>>
       \/ /\ ip = 0                                  \* default
          /\ grammar(h.Rrtype) = ""
          /\ Done(nil, <<ParseError("Unknown RR type", LexZero)>>)
          /\ UNCHANGED <<r, e, se>>
       \/ /\ ip = 1                                  \* the grammar has returned
          /\ UNCHANGED <<r, e, se>>
          /\ IF ~slurps(h.Rrtype) THEN Done(r, e)
             ELSE IF e # nil THEN Done(nil, e)
             ELSE pc' = "slurpRemainder" /\ ip' = 1 /\ UNCHANGED out
       \/ /\ ip = 2                                  \* slurpRemainder has returned
          /\ UNCHANGED <<r, e, se>>
          /\ Done(slurpResult(r, e, se)[1], slurpResult(r, e, se)[2])

Next ==
    \/ setRR
    \/ setA
    \/ setAAAA
    \/ setNS
    \/ setMX
    \/ setCNAME
    \/ setSOA
    \/ setRRSIG
    \/ setNSEC
    \/ setNSEC3
    \/ setTXT
    \/ slurpRemainder

Spec == Init /\ [][Next]_vars

\* setRR runs in one goroutine; the producer delivers a token to every
\* receive, so the step the consumer is at is always enabled and the
\* scheduler lets it take it.
\* The token sequences it is run on: the leading fields of each type, well
\* formed or with one token replaced, a tail, an ending, and every prefix
\* of the well-formed ones: the producer's input may end anywhere.  The
\* types of variable length are run on every tail as well, ended by NEWLINE
\* or by the end of the input.
LiveEndings == {<<NEWLINE>>, <<BLANK, NEWLINE>>, <<Str(t_name), NEWLINE>>, <<RRTYPE, NEWLINE>>}
LiveTail(t) == IF t \in VarTypes THEN DefaultTail ELSE <<>>
Prefixes(sq) == {SubSeq(sq, 1, n) : n \in 0..Len(sq)}
LiveStreams(t) ==
    UNION {Prefixes(Lead(t) \o LiveTail(t) \o en) : en \in LiveEndings}
    \cup {CutAtEOF(b \o LiveTail(t) \o <<NEWLINE>>) : b \in Faulted(Lead(t))}
    \cup (IF t \in VarTypes
          THEN {Lead(t) \o tl \o en : tl \in Tails, en \in {<<>>, <<NEWLINE>>}}
          ELSE {})
InitLive ==
    /\ h \in {Header(t) : t \in Types}
    /\ intSize \in IntSizes
    /\ stream \in LiveStreams(h.Rrtype)
    /\ pos = 0
    /\ pc = "setRR"
    /\ ip = 0
    /\ l = LexZero
    /\ rr = nil
    /\ i = 0
    /\ s = <<>>
    /\ r = nil
    /\ e = nil
    /\ se = nil
    /\ out = [r |-> nil, e |-> nil]
SpecLive == InitLive /\ [][Next]_vars /\ WF_vars(Next)

(* ---------------------------------------------------------------------- *)
(* slurpRemainder on its own: called on every short token sequence.        *)
(* ---------------------------------------------------------------------- *)
MaxSlurp == 3
SlurpAlphabet == {Str(t_name), BLANK, NEWLINE, EOF, RRTYPE}

InitSlurp ==
    /\ h = Header(TypeA)
    /\ intSize \in IntSizes
    /\ stream \in {CutAtEOF(sq) : sq \in SeqsUpTo(SlurpAlphabet, MaxSlurp)}
    /\ pos = 0
    /\ pc = "slurpRemainder"
    /\ ip = 1
    /\ l = LexZero
    /\ rr = nil
    /\ i = 0
    /\ s = <<>>
    /\ r = nil
    /\ e = nil
    /\ se = nil
    /\ out = [r |-> nil, e |-> nil]

SpecSlurp == InitSlurp /\ [][slurpRemainder]_vars

(* ---------------------------------------------------------------------- *)
(* Vocabulary of the claims.                                               *)
(* ---------------------------------------------------------------------- *)
\* The whole token sequence.
input == stream
IsEnd(lx) == lx.value = _NEWLINE \/ lx.value = _EOF
\* The position of the first NEWLINE or EOF of the stream.
firstEnd == CHOOSE k \in 1..(Len(input) + 1) :
                IsEnd(At(k)) /\ \A j \in 1..(k - 1) : ~IsEnd(At(j))
returned == pc = "done"
Garbage(lx) == <<ParseError("garbage after rdata", lx)>>

\* The decimal value of a text (an int kept in halves), when it is one.
IsDecimal(t) == Atoi(t, 64)[2]
Decimal(t) == Atoi(t, 64)[1]
\* The text is a decimal number that fits an unsigned field of w bits.
Fits(t, w) == /\ IsDecimal(t)
              /\ Decimal(t)[1] >= 0
              /\ CASE w = 8  -> Decimal(t)[1] = 0 /\ Decimal(t)[2] < 256
                   [] w = 16 -> Decimal(t)[1] = 0
                   [] w = 32 -> Decimal(t)[1] < 65536
IsIPv4(t) == parseIPv4(t) # nil
IsIPv6(t) == parseIPv4(t) = nil /\ parseIPv6(t) # nil
IsMnemonic(t) == Str_rrOk(ToUpper(t))
IsDate(t) == dateToTime(t)[2]

\* What the grammar of type t asks of the token at position k of its leading
\* fields: a BLANK at the separator positions, a STRING of the right content
\* at the field positions.
IsStr(lx) == lx.value = _STRING
MXFieldOk(k, lx) ==
    CASE k = 1 -> IsStr(lx) /\ Fits(lx.token, 16)
      [] k = 2 -> lx.value = _BLANK
      [] k = 3 -> IsStr(lx) /\ IsDomainName(lx.token)
SOAFieldOk(k, lx) ==
    CASE k \in {1, 3} -> IsStr(lx) /\ IsDomainName(lx.token)
      [] k \in {5, 7, 9, 11, 13} -> IsStr(lx) /\ Fits(lx.token, 32)
      [] OTHER -> lx.value = _BLANK
RRSIGFieldOk(k, lx) ==
    CASE k = 1 -> IsStr(lx) /\ IsMnemonic(lx.token)
      [] k \in {3, 5} -> IsStr(lx) /\ Fits(lx.token, 8)
      [] k = 7 -> IsStr(lx) /\ Fits(lx.token, 32)
      [] k \in {9, 11} -> IsStr(lx) /\ IsDate(lx.token)
      [] k = 13 -> IsStr(lx) /\ Fits(lx.token, 16)
      [] k = 15 -> IsStr(lx) /\ IsDomainName(lx.token)
      [] OTHER -> lx.value = _BLANK
NSEC3FieldOk(k, lx) ==
    CASE k \in {1, 3} -> IsStr(lx) /\ Fits(lx.token, 8)
      [] k = 5 -> IsStr(lx) /\ Fits(lx.token, 16)
      [] k \in {7, 9} -> IsStr(lx)
      [] OTHER -> lx.value = _BLANK
FieldOk(t, k, lx) ==
    CASE t = TypeA     -> IsStr(lx) /\ IsIPv4(lx.token)
      [] t = TypeAAAA  -> IsStr(lx) /\ IsIPv6(lx.token)
      [] t \in {TypeNS, TypeCNAME, TypeNSEC} -> IsStr(lx) /\ IsDomainName(lx.token)
      [] t = TypeMX    -> MXFieldOk(k, lx)
      [] t = TypeSOA   -> SOAFieldOk(k, lx)
      [] t = TypeRRSIG -> RRSIGFieldOk(k, lx)
      [] t = TypeNSEC3 -> NSEC3FieldOk(k, lx)
      [] OTHER -> TRUE
\* The number of tokens of the leading fields of type t.
FieldCount(t) == Len(Lead(t))
\* The stream begins with well-formed leading fields of the header's type.
ValidFields == /\ Len(input) >= FieldCount(h.Rrtype)
               /\ \A k \in 1..FieldCount(h.Rrtype) : FieldOk(h.Rrtype, k, input[k])
\* The two tokens after the leading fields.
after1 == At(FieldCount(h.Rrtype) + 1)
after2 == At(FieldCount(h.Rrtype) + 2)

(* ---------------------------------------------------------------------- *)
(* The claims.                                                             *)
(* ---------------------------------------------------------------------- *)

\* C1: for every fixed-arity type and every well-formed field sequence,
\* setRR succeeds when the fields are followed by NEWLINE, or by BLANK then
\* NEWLINE, and fails with "garbage after rdata" when they are followed by
\* BLANK then STRING, or directly by STRING.
C1_TailBoundary ==
    (returned /\ h.Rrtype \in FixedTypes /\ ValidFields) =>
        /\ after1.value = _NEWLINE => (out.e = nil /\ out.r # nil)
        /\ (after1.value = _BLANK /\ after2.value = _NEWLINE) =>
               (out.e = nil /\ out.r # nil)
        /\ (after1.value = _BLANK /\ after2.value = _STRING) =>
               (out.r = nil /\ out.e = Garbage(after2))
        /\ after1.value = _STRING => (out.r = nil /\ out.e = Garbage(after1))

\* C2: for every well-formed fixed-arity input, when setRR returns the
\* record the last token consumed is the terminating NEWLINE or EOF of the
\* record: no token of the stream after that terminator has been consumed.
\* (The EOF that a receive delivers once the stream is exhausted is not a
\* token of the stream.)
WellTerminated == \/ IsEnd(after1)
                  \/ after1.value = _BLANK /\ IsEnd(after2)
taken == IF pos <= Len(stream) THEN pos ELSE Len(stream)
C2_StopsAtTerminator ==
    (returned /\ h.Rrtype \in FixedTypes /\ ValidFields /\ WellTerminated
       /\ out.r # nil) =>
        /\ pos >= firstEnd
        /\ taken <= firstEnd

\* C3: a numeric field never holds a value other than the decimal value of
\* its token: when setRR returns a record, every numeric field of it equals
\* the decimal value of the token read for it.
\* The value x of a field of 8 or 16 bits, and the halves x of a field of 32
\* bits, are the decimal value of the text t.
Holds16(x, t) == IsDecimal(t) /\ Decimal(t) = <<0, x>>
Holds32(x, t) == IsDecimal(t) /\ Decimal(t) = x
C3_NumericFieldsExact ==
    (returned /\ out.r # nil) =>
        LET rec == out.r[1]
            tk(k) == consumed[k].token
        IN  CASE h.Rrtype = TypeMX    -> Holds16(rec.Pref, tk(1))
              [] h.Rrtype = TypeSOA   -> /\ Holds32(rec.Serial, tk(5))
                                         /\ Holds32(rec.Refresh, tk(7))
                                         /\ Holds32(rec.Retry, tk(9))
                                         /\ Holds32(rec.Expire, tk(11))
                                         /\ Holds32(rec.Minttl, tk(13))
              [] h.Rrtype = TypeRRSIG -> /\ Holds16(rec.Algorithm, tk(3))
                                         /\ Holds16(rec.Labels, tk(5))
                                         /\ Holds32(rec.OrigTtl, tk(7))
                                         /\ Holds16(rec.KeyTag, tk(13))
              [] h.Rrtype = TypeNSEC3 -> /\ Holds16(rec.Hash, tk(1))
                                         /\ Holds16(rec.Flags, tk(3))
                                         /\ Holds16(rec.Iterations, tk(5))
              [] OTHER -> TRUE

\* C4: slurpRemainder reads one token when that token is not BLANK and two
\* when it is; it succeeds exactly when the first token is NEWLINE or EOF, or
\* the first is BLANK and the second is NEWLINE or EOF; otherwise it returns
\* "garbage after rdata" with the last token it read.  (Under SpecSlurp.)
slurpReturned == pc = "setRR" /\ ip = 2
C4_SlurpContract ==
    /\ pos <= 2
    /\ slurpReturned =>
        /\ pos = IF At(1).value = _BLANK THEN 2 ELSE 1
        /\ se = nil <=> \/ IsEnd(At(1))
                        \/ At(1).value = _BLANK /\ IsEnd(At(2))
        /\ se # nil => se = Garbage(At(pos))
C4_Witness ==
    /\ slurpReturned
    /\ At(1).value = _BLANK
    /\ At(2).value = _STRING
    /\ pos = 2
    /\ se = Garbage(At(2))

\* C5: for a type code that has no grammar, setRR returns a nil record and
\* the "Unknown RR type" error with the zero token, having received nothing.
C5_UnknownType ==
    (h.Rrtype \notin FixedTypes \cup VarTypes) =>
        /\ pos = 0
        /\ c = stream
        /\ pc \in {"setRR", "done"}
        /\ returned => out = [r |-> nil,
                              e |-> <<ParseError("Unknown RR type", LexZero)>>]
C5_Witness ==
    /\ returned
    /\ h.Rrtype = 65535
    /\ stream # <<>>
    /\ out.e = <<ParseError("Unknown RR type", LexZero)>>

\* C6: setRR returns either a record and no error, or an error and no
\* record; when the grammar succeeds and slurpRemainder fails, the record
\* is dropped and the error of slurpRemainder is returned.
C6_RecordXorError ==
    returned =>
        /\ \/ out.r # nil /\ out.e = nil
           \/ out.r = nil /\ out.e # nil
        /\ (r # nil /\ se # nil) => out = [r |-> nil, e |-> se]
C6_Witness ==
    /\ returned
    /\ h.Rrtype = TypeSOA
    /\ r # nil
    /\ se # nil
    /\ out.r = nil

\* C7: when setRR returns a parse error for a recognised type, the token of
\* the error is the last token consumed: nothing is read after it.
C7_ErrorTokenIsLast ==
    (returned /\ h.Rrtype \in FixedTypes \cup VarTypes /\ out.e # nil) =>
        /\ pos >= 1
        /\ out.e[1].lex = At(pos)

\* C8: in the MX, SOA, RRSIG and NSEC3 grammars, a token other than BLANK at
\* a separator position makes setRR return an error: no record is returned
\* when a separator position that was read holds anything but BLANK.
SepPositions(t) ==
    CASE t = TypeMX    -> {2}
      [] t = TypeSOA   -> {2, 4, 6, 8, 10, 12}
      [] t = TypeRRSIG -> {2, 4, 6, 8, 10, 12, 14}
      [] t = TypeNSEC3 -> {2, 4, 6, 8}
      [] OTHER         -> {}
C8_SeparatorsChecked ==
    (returned /\ \E k \in SepPositions(h.Rrtype) : k <= pos /\ At(k).value # _BLANK) =>
        (out.r = nil /\ out.e # nil)

\* C9: for type A, setRR returns a record only if the token is an IPv4
\* address, and for type AAAA only if it is an IPv6 address; any other
\* token gives the error "bad a" / "bad AAAA" with that token.
C9_AddressFamily ==
    (returned /\ h.Rrtype \in {TypeA, TypeAAAA}) =>
        LET good == IF h.Rrtype = TypeA THEN IsIPv4(At(1).token)
                    ELSE IsIPv6(At(1).token)
            bad  == IF h.Rrtype = TypeA THEN "bad a" ELSE "bad AAAA"
        IN  /\ out.r # nil => good
            /\ ~good => out = [r |-> nil, e |-> <<ParseError(bad, At(1))>>]

\* C10: for the four types of variable length, well-formed leading fields
\* and a tail of acceptable STRING and BLANK tokens that ends with EOF
\* instead of NEWLINE are parsed without error: the scan loop stops at the
\* first EOF, consumes it, and setRR returns the record.
TailOk(t, lx) ==
    \/ lx.value = _BLANK
    \/ /\ lx.value = _STRING
       /\ t \in {TypeNSEC, TypeNSEC3} => IsMnemonic(lx.token)
EndsWithEOF ==
    /\ h.Rrtype \in VarTypes
    /\ ValidFields
    /\ At(firstEnd).value = _EOF
    /\ \A k \in (FieldCount(h.Rrtype) + 1)..(firstEnd - 1) : TailOk(h.Rrtype, At(k))
C10_EOFTerminates ==
    /\ EndsWithEOF => pos <= firstEnd
    /\ (returned /\ EndsWithEOF) =>
          /\ out.e = nil
          /\ out.r # nil
          /\ pos = firstEnd
          /\ At(pos).value = _EOF
C10_Witness ==
    /\ returned
    /\ EndsWithEOF
    /\ h.Rrtype = TypeRRSIG
    /\ firstEnd - 1 - FieldCount(h.Rrtype) >= 2
    /\ out.r # nil
    /\ pos = firstEnd

\* C11: for a tail of STRING and BLANK tokens ended by NEWLINE or EOF, Txt
\* of a TXT record is the text of every STRING and every BLANK token of the
\* tail, concatenated in stream order, and Signature of an RRSIG record (the
\* tail after the signer name) is the text of the STRING tokens only,
\* concatenated in stream order.
\* The position of the first NEWLINE or EOF at or after position from.
tailEnd(from) == CHOOSE k \in from..(Len(input) + from) :
                     IsEnd(At(k)) /\ \A j \in from..(k - 1) : ~IsEnd(At(j))
\* The text of the tokens of the kinds given at the positions a..b, in order.
RECURSIVE TextOf(_, _, _)
TextOf(a, b, kinds) ==
    IF a > b THEN <<>>
    ELSE (IF At(a).value \in kinds THEN At(a).token ELSE <<>>) \o TextOf(a + 1, b, kinds)
tailStart == FieldCount(h.Rrtype) + 1
PlainTail == \A k \in tailStart..(tailEnd(tailStart) - 1) :
                 At(k).value \in {_STRING, _BLANK}
C11_Concatenation ==
    (returned /\ h.Rrtype \in {TypeTXT, TypeRRSIG} /\ ValidFields /\ PlainTail) =>
        /\ out.e = nil
        /\ out.r # nil
        /\ h.Rrtype = TypeTXT =>
               out.r[1].Txt = TextOf(tailStart, tailEnd(tailStart) - 1, {_STRING, _BLANK})
        /\ h.Rrtype = TypeRRSIG =>
               out.r[1].Signature = TextOf(tailStart, tailEnd(tailStart) - 1, {_STRING})
C11_Witness ==
    /\ returned
    /\ h.Rrtype = TypeTXT
    /\ At(1) = Str(t_mx) /\ At(2) = BLANK /\ At(3) = Str(t_A) /\ IsEnd(At(4))
    /\ out.r # nil
    /\ out.r[1].Txt = <<"m", "x", " ", "A">>
\* The same tail after the signer name of an RRSIG: the blank is left out.
C11_SignatureCase ==
    /\ returned
    /\ h.Rrtype = TypeRRSIG
    /\ ValidFields
    /\ At(16) = Str(t_mx) /\ At(17) = BLANK /\ At(18) = Str(t_A) /\ IsEnd(At(19))
    /\ out.r # nil
    /\ out.r[1].Signature = <<"m", "x", "A">>

\* C12: whenever setRR returns an NSEC or NSEC3 record, TypeBitMap is the
\* sequence of the type codes of the STRING tokens of the bitmap tail, in
\* stream order, one entry per STRING token: BLANK tokens add nothing,
\* repeated mnemonics are repeated entries, nothing is sorted.
\* The type code of a STRING token (-1 when its text is no mnemonic).
CodeOf(lx) == IF IsMnemonic(lx.token) THEN Str_rrGet(ToUpper(lx.token)) ELSE -1
RECURSIVE CodesOf(_, _)
CodesOf(a, b) ==
    IF a > b THEN <<>>
    ELSE (IF IsStr(At(a)) THEN <<CodeOf(At(a))>> ELSE <<>>) \o CodesOf(a + 1, b)
C12_BitMapOrder ==
    (returned /\ h.Rrtype \in {TypeNSEC, TypeNSEC3} /\ out.r # nil) =>
        out.r[1].TypeBitMap = CodesOf(tailStart, tailEnd(tailStart) - 1)
C12_Witness ==
    /\ returned
    /\ h.Rrtype = TypeNSEC
    /\ At(2) = Str(t_mx) /\ At(3) = Str(t_A) /\ At(4) = Str(t_mx) /\ IsEnd(At(5))
    /\ out.r # nil
    /\ out.r[1].TypeBitMap = <<TypeMX, TypeA, TypeMX>>
\* The scenario of a blank between the mnemonics, for NSEC3.
C12_BlankCase ==
    /\ returned
    /\ h.Rrtype = TypeNSEC3
    /\ At(10) = Str(t_A) /\ At(11) = BLANK /\ At(12) = Str(t_mx) /\ IsEnd(At(13))
    /\ out.r # nil
    /\ out.r[1].TypeBitMap = <<TypeA, TypeMX>>

\* C13: for RRSIG, NSEC, NSEC3 and TXT setRR never runs slurpRemainder, and
\* when it returns a record the last token consumed is the NEWLINE or EOF
\* that ended the scan loop of the grammar, nothing after it; for the
\* fixed-arity types slurpRemainder runs exactly when the grammar has
\* returned without error, and it is entered from the point of setRR where
\* the grammar has returned.
C13_SlurpAfterGrammar ==
    [][ /\ (pc' = "slurpRemainder" /\ pc # "slurpRemainder") =>
               /\ h.Rrtype \in FixedTypes
               /\ pc = "setRR" /\ ip = 1
               /\ r # nil /\ e = nil
        /\ (pc = "setRR" /\ ip = 1 /\ h.Rrtype \in FixedTypes) =>
               (pc' = "slurpRemainder" <=> e = nil)
        /\ h.Rrtype \in VarTypes => pc' # "slurpRemainder"
        /\ (pc' = "done" /\ h.Rrtype \in VarTypes /\ out'.r # nil) =>
               /\ pos' = pos
               /\ pos = tailEnd(tailStart)
               /\ IsEnd(At(pos))
      ]_vars
C13_Witness ==
    /\ returned
    /\ h.Rrtype = TypeNSEC
    /\ out.r # nil
    /\ se = nil
    /\ pos = tailEnd(tailStart)
    /\ pos < Len(stream)
\* A fixed-arity type: the record is returned after slurpRemainder has run.
C13_FixedCase ==
    /\ pc = "slurpRemainder"
    /\ h.Rrtype = TypeMX
    /\ r # nil /\ e = nil
    /\ pos = 3

\* C14: with a producer that hands over a finite token sequence and then
\* delivers EOF on every further receive, setRR eventually returns, for
\* every header type and every token sequence, and no scan loop goes on
\* after the first EOF it receives.  (Under SpecLive.)
NoScanPastEOF ==
    h.Rrtype \in VarTypes => \A k \in tailStart..(pos - 1) : At(k).value # _EOF
C14_EventuallyReturns == <>returned /\ []NoScanPastEOF
C14_Witness ==
    /\ returned
    /\ h.Rrtype = TypeNSEC3
    /\ pos >= Len(stream) + 2
    /\ At(pos).value = _EOF
    /\ out.r # nil

\* C15: every error produced by a grammar carries a description that names
\* the type of the header: in particular an MX record whose exchange is not
\* a domain name gives an error labelled for MX.
\* The descriptions of the source that name the type t.
Labels(t) ==
    CASE t = TypeA     -> {"bad a"}
      [] t = TypeAAAA  -> {"bad AAAA"}
      [] t = TypeNS    -> {"bad NS"}
      [] t = TypeMX    -> {"bad MX"}
      [] t = TypeCNAME -> {"bad CNAME"}
      [] t = TypeSOA   -> {"bad SOA mname", "bad SOA rname", "bad SOA zone parameter"}
      [] t = TypeRRSIG -> {"bad RRSIG"}
      [] t = TypeNSEC  -> {"bad NSEC nextdomain", "bad NSEC non RR in type bitmap",
                           "bad NSEC garbage in type bitmap"}
      [] t = TypeNSEC3 -> {"bad NSEC3"}
      [] t = TypeTXT   -> {"bad TXT"}
      [] OTHER         -> {}
C15_ErrorNamesType ==
    (returned /\ h.Rrtype \in FixedTypes \cup VarTypes /\ e # nil) =>
        /\ out.e = e
        /\ e[1].err \in Labels(h.Rrtype)

\* C16: for a header of a recognised type and any token sequence, setRR
\* never consumes a token of the stream that lies after the first NEWLINE or
\* EOF token: it does not read into the tokens of the following record.
C16_NeverPastFirstEnd ==
    h.Rrtype \in FixedTypes \cup VarTypes => taken <= firstEnd

\* C17: whenever setRR returns an NSEC3 record, SaltLength is the length of
\* the text of the salt token and HashLength the length of the text of the
\* next domain token, whatever the length (256 and more included).
C17_LengthsExact ==
    (returned /\ h.Rrtype = TypeNSEC3 /\ out.r # nil) =>
        /\ out.r[1].SaltLength = Len(consumed[7].token)
        /\ out.r[1].HashLength = Len(consumed[9].token)

\* C18: in the bitmap scan of NSEC, the first STRING token whose upper-cased
\* text is no registered mnemonic makes setRR return a nil record and the
\* error "bad NSEC non RR in type bitmap" with that token, no later token
\* being consumed; a token that is neither STRING, BLANK, NEWLINE nor EOF
\* gives the error "bad NSEC garbage in type bitmap".
\* The scan stops at a token that is neither a BLANK nor a mnemonic.
Stops(lx) == lx.value # _BLANK /\ ~(IsStr(lx) /\ IsMnemonic(lx.token))
stopAt == CHOOSE k \in 2..(Len(input) + 2) :
              Stops(At(k)) /\ \A j \in 2..(k - 1) : ~Stops(At(j))
C18_BitMapErrors ==
    (returned /\ h.Rrtype = TypeNSEC /\ IsDomainName(At(1).token)) =>
        /\ pos = stopAt
        /\ IsStr(At(stopAt)) =>
               out = [r |-> nil,
                      e |-> <<ParseError("bad NSEC non RR in type bitmap", At(stopAt))>>]
        /\ (~IsStr(At(stopAt)) /\ ~IsEnd(At(stopAt))) =>
               out = [r |-> nil,
                      e |-> <<ParseError("bad NSEC garbage in type bitmap", At(stopAt))>>]
C18_Witness ==
    /\ returned
    /\ h.Rrtype = TypeNSEC
    /\ At(2) = BLANK /\ At(3) = Str(t_mx) /\ At(4) = Str(t_badname)
    /\ rr.TypeBitMap = <<TypeMX>>
    /\ out.r = nil
    /\ out.e = <<ParseError("bad NSEC non RR in type bitmap", Str(t_badname))>>
    /\ pos = 4
    /\ Len(stream) > 4
\* A token of a fifth kind in the bitmap.
C18_GarbageCase ==
    /\ returned
    /\ h.Rrtype = TypeNSEC
    /\ At(2) = Str(t_A) /\ At(3) = RRTYPE
    /\ out = [r |-> nil, e |-> <<ParseError("bad NSEC garbage in type bitmap", RRTYPE)>>]
    /\ pos = 3

\* C19: whenever setRR returns an SOA record, its header is the header
\* passed in, Ns is the text of the 1st token read and Mbox that of the 3rd,
\* both domain names, and Serial, Refresh, Retry, Expire, Minttl are the
\* decimal values of the 5th, 7th, 9th, 11th and 13th tokens, in that order.
C19_SOAFieldOrder ==
    (returned /\ h.Rrtype = TypeSOA /\ out.r # nil) =>
        LET rec == out.r[1]
            tk(k) == consumed[k].token
        IN  /\ rec.Hdr = h
            /\ rec.Ns = tk(1) /\ IsDomainName(tk(1))
            /\ rec.Mbox = tk(3) /\ IsDomainName(tk(3))
            /\ Holds32(rec.Serial, tk(5)) /\ Fits(tk(5), 32)
            /\ Holds32(rec.Refresh, tk(7)) /\ Fits(tk(7), 32)
            /\ Holds32(rec.Retry, tk(9)) /\ Fits(tk(9), 32)
            /\ Holds32(rec.Expire, tk(11)) /\ Fits(tk(11), 32)
            /\ Holds32(rec.Minttl, tk(13)) /\ Fits(tk(13), 32)
\* The same with the values taken as the code converts them, uint32(j): the
\* low 32 bits of the decimal value.
C19_OrderModulo ==
    (returned /\ h.Rrtype = TypeSOA /\ out.r # nil) =>
        LET rec == out.r[1]
            tk(k) == consumed[k].token
            val(k) == uint32(Decimal(tk(k)))
        IN  /\ rec.Hdr = h
            /\ rec.Ns = tk(1) /\ IsDomainName(tk(1))
            /\ rec.Mbox = tk(3) /\ IsDomainName(tk(3))
            /\ \A k \in {5, 7, 9, 11, 13} : IsDecimal(tk(k))
            /\ rec.Serial = val(5) /\ rec.Refresh = val(7) /\ rec.Retry = val(9)
            /\ rec.Expire = val(11) /\ rec.Minttl = val(13)
\* The record whose seven fields all differ.
C19_DistinctCase ==
    /\ returned
    /\ h.Rrtype = TypeSOA
    /\ out.r # nil
    /\ out.r[1].Ns = t_name /\ out.r[1].Mbox = t_mx
    /\ out.r[1].Serial = <<0, 7>> /\ out.r[1].Refresh = <<0, 300>>
    /\ out.r[1].Retry = <<1, 4464>> /\ out.r[1].Expire = <<0, 1>>
    /\ out.r[1].Minttl = <<0, 42>>

====
